---- MODULE Spec2Model ----
(***************************************************************************)
(* Marketing-engine: the orchestration of BlogGenerator, TrendFetcher,     *)
(* ContentGenerator, collect_metrics and LLMPerformanceAnalyzer over the   *)
(* JSON files they share.  The LLM, the search API and the vector store    *)
(* are the environment: their replies are inputs drawn from bounded sets.  *)
(*                                                                         *)
(* Text is a sequence of one-character strings.  A model reply is a        *)
(* sequence of lexical tokens (braces, members, scalars, prose).           *)
(***************************************************************************)
EXTENDS Integers, Sequences, FiniteSets, TLC

VARIABLES
    now,            \* datetime.utcnow(), in whole seconds
    nicheFile,      \* ./niche/niche_icp.json
    usedFile,       \* ./topics/used_blog_topics.json
    blogDir,        \* ./content/blogs : timestamp -> blog_<timestamp>.json
    bg_pc,          \* BlogGenerator.run: position
    bg_mode,        \* run(mode)
    bg_niche,       \* local niche
    bg_used,        \* local used_topics
    bg_topic,       \* local topic
    bg_news,        \* local news_items
    bg_err,         \* the exception that ended the run, if any
    bg_runs,        \* runs started so far
    vectordb,       \* the FAISS index: whether it holds documents, and the texts it scores high
    newsFile,       \* ./news/filtered_news.json
    rf_in,          \* relevance_filter called on its own: items, icp_json, top_k
    rf_out,         \* and what it returned
    tf_pc,          \* TrendFetcher.run: position
    tf_icp,         \* local icp_json
    tf_queries,     \* local queries still to fetch
    tf_items,       \* local all_items
    tf_err,         \* the exception that ended the run, if any
    blogDirExists,  \* whether ./content/blogs has been made
    topicsFile,     \* ./topics/topics.json
    contentFiles,   \* ./content/generated_content/<platform>.json
    perfFile,       \* ./analytics/performance_data.json
    insightsFile,   \* ./analytics/performance_insights.json
    cg_pc,          \* ContentGenerator.run: position
    cg_id,          \* run(topic_id)
    cg_topic,       \* local topic
    cg_niche,       \* local niche
    cg_posts,       \* locals linkedin_post, twitter_post, youtube_post
    cg_calls,       \* calls of self.llm.invoke in this run
    cg_err,         \* the exception that ended the run, if any
    cg_runs,        \* runs started so far
    cm_pc,          \* collect_metrics: position
    cm_all_data,    \* local all_data
    cm_existing,    \* local existing
    cm_err,         \* the exception that ended the run, if any
    cm_runs,        \* runs started so far
    an_pc,          \* LLMPerformanceAnalyzer.run: position
    an_reply,       \* the reply analyze_with_llm got
    an_analysis,    \* local analysis
    an_err,         \* the exception that ended the run, if any
    an_runs,        \* runs started so far
    cm2_pc,         \* a second collect_metrics process: position
    cm2_all_data,   \* its local all_data
    cm2_existing,   \* its local existing
    call_in,        \* a function called on its own: its arguments
    call_out        \* and what it returned

bgVars == <<bg_pc, bg_mode, bg_niche, bg_used, bg_topic, bg_news, bg_err, bg_runs>>
tfVars == <<vectordb, newsFile, rf_in, rf_out, tf_pc, tf_icp, tf_queries, tf_items, tf_err>>
cgVars == <<cg_pc, cg_id, cg_topic, cg_niche, cg_posts, cg_calls, cg_err, cg_runs>>
cmVars == <<cm_pc, cm_all_data, cm_existing, cm_err, cm_runs>>
anVars == <<an_pc, an_reply, an_analysis, an_err, an_runs>>
\* what BlogGenerator and TrendFetcher never touch
cm2Vars == <<cm2_pc, cm2_all_data, cm2_existing>>
callVars == <<call_in, call_out>>
otherVars == <<topicsFile, contentFiles, perfFile, insightsFile, cgVars, cmVars, anVars,
               cm2Vars, callVars>>

\* no second process, and no function called on its own
Cm2Off ==
    /\ cm2_pc = "off"
    /\ cm2_all_data = <<>>
    /\ cm2_existing = <<>>

NotCalled == [done |-> FALSE]
CallOff ==
    /\ call_in = NotCalled
    /\ call_out = NotCalled

-----------------------------------------------------------------------------
(* Bounds of the model *)

MaxRuns == 2
MaxClock == 1
MaxItems == 3
MaxTopK == 2
MaxTitleLen == 3

-----------------------------------------------------------------------------
(* Text *)

Min(x, y) == IF x <= y THEN x ELSE y
Max(x, y) == IF x >= y THEN x ELSE y

\* str.lower() on the characters the model uses
LowerChar(c) ==
    CASE c = "A" -> "a"
      [] c = "B" -> "b"
      [] c = "N" -> "n"
      [] c = "O" -> "o"
      [] OTHER -> c

Lower(s) == [i \in 1..Len(s) |-> LowerChar(s[i])]

\* s[lo:hi] of Python for 0 <= lo, 0 <= hi (half-open, clipped)
Slice(s, lo, hi) ==
    LET h == Min(hi, Len(s))
    IN  IF lo >= h THEN <<>> ELSE SubSeq(s, lo + 1, h)

\* "sub in s"
Contains(s, sub) ==
    \E i \in 0..(Len(s) - Len(sub)) : Slice(s, i, i + Len(sub)) = sub

IsSpace(c) == c = " "

RECURSIVE LStrip(_)
LStrip(s) == IF s # <<>> /\ IsSpace(Head(s)) THEN LStrip(Tail(s)) ELSE s

RECURSIVE RStrip(_)
RStrip(s) ==
    IF s # <<>> /\ IsSpace(s[Len(s)]) THEN RStrip(SubSeq(s, 1, Len(s) - 1)) ELSE s

\* str.strip()
Strip(s) == RStrip(LStrip(s))

-----------------------------------------------------------------------------
(* difflib.SequenceMatcher(None, a, b).ratio(), as is_similar calls it:    *)
(* no junk, and autojunk is idle below 200 characters.                     *)

\* length of the common run of a from i and b from j (0-based), within the ranges
RECURSIVE RunLen(_, _, _, _, _, _)
RunLen(a, i, ahi, b, j, bhi) ==
    IF i < ahi /\ j < bhi /\ a[i + 1] = b[j + 1]
    THEN 1 + RunLen(a, i + 1, ahi, b, j + 1, bhi)
    ELSE 0

\* find_longest_match: the longest block, earliest in a, then earliest in b
FindLongestMatch(a, alo, ahi, b, blo, bhi) ==
    LET P == (alo..(ahi - 1)) \X (blo..(bhi - 1))
        K(p) == RunLen(a, p[1], ahi, b, p[2], bhi)
    IN  IF \A p \in P : K(p) = 0
        THEN <<alo, blo, 0>>
        ELSE LET best == CHOOSE p \in P :
                            /\ K(p) > 0
                            /\ \A q \in P :
                                  \/ K(q) < K(p)
                                  \/ /\ K(q) = K(p)
                                     /\ \/ p[1] < q[1]
                                        \/ p[1] = q[1] /\ p[2] <= q[2]
             IN  <<best[1], best[2], K(best)>>

\* the number of matched characters summed over get_matching_blocks()
RECURSIVE Matches(_, _, _, _, _, _)
Matches(a, alo, ahi, b, blo, bhi) ==
    LET m == FindLongestMatch(a, alo, ahi, b, blo, bhi)
        i == m[1]
        j == m[2]
        k == m[3]
    IN  IF k = 0 THEN 0
        ELSE k
             + (IF alo < i /\ blo < j THEN Matches(a, alo, i, b, blo, j) ELSE 0)
             + (IF i + k < ahi /\ j + k < bhi
                THEN Matches(a, i + k, ahi, b, j + k, bhi) ELSE 0)

\* ratio() as the fraction <<numerator, denominator>>; 1.0 when both are empty
Ratio(a, b) ==
    IF Len(a) + Len(b) = 0 THEN <<1, 1>>
    ELSE <<2 * Matches(a, 0, Len(a), b, 0, Len(b)), Len(a) + Len(b)>>

\* threshold=0.8 of is_similar, in tenths
ThresholdTenths == 8

\* is_similar without the two lower() calls
is_similar_cased(a, b) ==
    LET r == Ratio(a, b)
    IN  10 * r[1] > ThresholdTenths * r[2]

\* is_similar with lower() on its first argument only
is_similar_half_lowered(a, b) ==
    LET r == Ratio(Lower(a), b)
    IN  10 * r[1] > ThresholdTenths * r[2]

\* BlogGenerator.is_similar(a, b)
is_similar(a, b) ==
    LET r == Ratio(Lower(a), Lower(b))
    IN  10 * r[1] > ThresholdTenths * r[2]

-----------------------------------------------------------------------------
(* Python values and model replies *)

\* a JSON/Python value: a str with its characters s, a number, or an object or a list
\* with its member or element tokens m
StrVal(s) == [ty |-> "str", s |-> s, m |-> <<>>]
NumVal == [ty |-> "num", s |-> <<>>, m |-> <<>>]
NoVal == [ty |-> "none", s |-> <<>>, m |-> <<>>]

\* the lexical tokens of a reply
LB == [k |-> "lb", key |-> "{", val |-> NoVal]
RB == [k |-> "rb", key |-> "}", val |-> NoVal]
\* a character of prose, or a space
Ch(c) == [k |-> "ch", key |-> c, val |-> NoVal]
\* an object member "key": value, with the comma that separates it from its neighbour
Mem(key, v) == [k |-> "mem", key |-> key, val |-> v]
\* a scalar JSON value standing alone
Scalar == [k |-> "val", key |-> "0", val |-> NumVal]

Prose(s) == [i \in 1..Len(s) |-> Ch(s[i])]

\* the characters of a token (the text of a key stands as one symbol)
TokText(t) ==
    CASE t.k = "mem" -> <<"\"", t.key, "\"", ":">> \o
                        (IF t.val.ty = "str" THEN <<"\"">> \o t.val.s \o <<"\"">> ELSE <<"0">>)
      [] OTHER -> <<t.key>>

RECURSIVE Text(_)
Text(r) == IF r = <<>> THEN <<>> ELSE TokText(Head(r)) \o Text(Tail(r))

Positions(r, kind) == {i \in 1..Len(r) : r[i].k = kind}
SetMin(S) == CHOOSE x \in S : \A y \in S : x <= y
SetMax(S) == CHOOSE x \in S : \A y \in S : x >= y

\* re.search(r"\{.*\}", response, re.S): from the first "{" to the last "}" after it
BraceMatch(r) ==
    LET L == Positions(r, "lb")
        R == Positions(r, "rb")
    IN  IF L # {} /\ R # {} /\ SetMin(L) < SetMax(R)
        THEN [found |-> TRUE, span |-> SubSeq(r, SetMin(L), SetMax(R))]
        ELSE [found |-> FALSE, span |-> <<>>]

IsWs(t) == t.k = "ch" /\ IsSpace(t.key)
NoWs(r) == SelectSeq(r, LAMBDA t : ~IsWs(t))

\* whether json.loads accepts the text: one scalar, or an object of members
IsJSONObject(r) ==
    LET c == NoWs(r)
    IN  /\ Len(c) >= 2
        /\ c[1].k = "lb"
        /\ c[Len(c)].k = "rb"
        /\ \A i \in 2..(Len(c) - 1) : c[i].k = "mem"

IsJSONScalar(r) == LET c == NoWs(r) IN Len(c) = 1 /\ c[1].k = "val"

IsJSON(r) == IsJSONObject(r) \/ IsJSONScalar(r)

\* a dict is a set of <<key, value>> with one pair per key; a repeated key keeps its last value
DictOf(r) ==
    LET c == NoWs(r)
        M == {i \in 2..(Len(c) - 1) : \A j \in (i + 1)..(Len(c) - 1) : c[j].key # c[i].key}
    IN  {<<c[i].key, c[i].val>> : i \in M}

HasKey(d, key) == \E p \in d : p[1] = key
Get(d, key) == (CHOOSE p \in d : p[1] = key)[2]
\* dict.get(key, default)
GetOr(d, key, default) == IF HasKey(d, key) THEN Get(d, key) ELSE default

\* the exceptions of a value that is not what the code takes it for
NoLower == "AttributeError: object has no attribute 'lower'"
ListHasNoGet == "AttributeError: 'list' object has no attribute 'get'"

Returned(v) == [raised |-> FALSE, err |-> "", val |-> v]
Raised(e) == [raised |-> TRUE, err |-> e, val |-> NoVal]

\* what requests.get does: status 200, another status, or an exception (a timeout too)
FetchOutcomes == {"ok", "status", "exception"}

-----------------------------------------------------------------------------
(* Files.  A file is absent, or holds a JSON value. *)

Absent == [st |-> "absent", val |-> <<>>]
Holding(v) == [st |-> "ok", val |-> v]

\* BlogGenerator.load_json / ContentGenerator.load_json: [] when the path does not exist
load_json(file) ==
    IF file.st = "absent" THEN [isList |-> TRUE, val |-> <<>>]
    ELSE [isList |-> FALSE, val |-> file.val]

\* BlogGenerator.load_used_topics
load_used_topics(file) == IF file.st = "ok" THEN file.val ELSE <<>>
\* json.load, which nothing guards there, on a file it rejects
LoadRaises(file) == file.st = "bad"

-----------------------------------------------------------------------------
(* The niche profile, the candidate items and the vector index *)

\* None, as a field value
PyNone == <<"<None>">>

\* f"{value}"
Fmt(v) == IF v = PyNone THEN <<"N", "o", "n", "e">> ELSE v

\* an entry of customer_pain_points or customer_needs: a dict (with or without its
\* "challenge"/"need" key), a str, or something else
DictEntry(text) == [kind |-> "dict", has |-> TRUE, text |-> text]
DictNoKey == [kind |-> "dict", has |-> FALSE, text |-> <<>>]
StrEntry(text) == [kind |-> "str", has |-> FALSE, text |-> text]
OtherEntry == [kind |-> "other", has |-> FALSE, text |-> <<>>]

\* profiles: industry "Ab"; no industry, a challenge "b a" and a need "ON";
\* industry "xx" with entries without text and a need "B"
IcpSamples ==
    { [industry |-> <<"A", "b">>, pains |-> <<>>, needs |-> <<>>],
      [industry |-> <<>>, pains |-> <<DictEntry(<<"b", " ", "a">>)>>,
       needs |-> <<StrEntry(<<"O", "N">>)>>],
      [industry |-> <<"x", "x">>, pains |-> <<DictNoKey, DictEntry(<<>>), OtherEntry>>,
       needs |-> <<DictEntry(<<"B">>)>>] }

NicheSample == [industry |-> <<"A", "b">>, pains |-> <<>>, needs |-> <<>>]

\* items as parse_results leaves them: a missing title or snippet is None
ItemSamples ==
    { [title |-> <<"A", "b">>, description |-> PyNone],
      [title |-> <<"b">>, description |-> <<"a">>],
      [title |-> PyNone, description |-> <<"x">>],
      [title |-> <<"x">>, description |-> <<"x">>] }

\* the text relevance_filter looks an item up by
ItemText(item) == Lower(Fmt(item.title) \o <<" ">> \o Fmt(item.description))

\* threshold=0.65 of relevance_filter, in hundredths
ThresholdHundredths == 65

\* an index: empty, or scoring the texts of `high` at the threshold and the rest below
IndexSamples ==
    { [empty |-> TRUE, high |-> {}] }
    \cup { [empty |-> FALSE, high |-> H] : H \in SUBSET {ItemText(x) : x \in ItemSamples} }

\* self.vectordb.similarity_search_with_score(text, k=1): (document, score) pairs
similarity_search_with_score(db, text) ==
    IF db.empty THEN <<>>
    ELSE << [page_content |-> <<"d">>,
             score |-> IF text \in db.high THEN ThresholdHundredths
                       ELSE ThresholdHundredths - 1] >>

-----------------------------------------------------------------------------
(* TrendFetcher.relevance_filter *)

\* the keywords of one list of entries (lines 140-157)
RECURSIVE EntryKeywords(_)
EntryKeywords(entries) ==
    IF entries = <<>> THEN <<>>
    ELSE LET e == Head(entries)
             rest == EntryKeywords(Tail(entries))
         IN  CASE e.kind = "dict" ->
                    \* p.get("challenge", ""), kept if not empty
                    IF e.has /\ e.text # <<>> THEN <<Lower(e.text)>> \o rest ELSE rest
               [] e.kind = "str" -> <<Lower(e.text)>> \o rest
               [] OTHER -> rest

\* the keywords without the industry
KeywordsOfEntries(icp) == EntryKeywords(icp.pains) \o EntryKeywords(icp.needs)

Keywords(icp) ==
    <<Lower(icp.industry)>> \o EntryKeywords(icp.pains) \o EntryKeywords(icp.needs)

\* any(kw in text for kw in keywords if kw)
keyword_hit(keywords, text) ==
    \E i \in 1..Len(keywords) : keywords[i] # <<>> /\ Contains(text, keywords[i])

\* docs_and_scores and docs_and_scores[0][1] >= threshold
semantic_hit(docs_and_scores, threshold) ==
    docs_and_scores # <<>> /\ docs_and_scores[1].score >= threshold

Score(v) == [none |-> FALSE, v |-> v]
NoScore == [none |-> TRUE, v |-> 0]

\* {**item, "relevance_context": ..., "similarity_score": ...}
Annotated(item, docs_and_scores) ==
    [title |-> item.title, description |-> item.description,
     relevance_context |-> IF docs_and_scores # <<>> THEN docs_and_scores[1].page_content
                           ELSE <<>>,
     similarity_score |-> IF docs_and_scores # <<>> THEN Score(docs_and_scores[1].score)
                          ELSE NoScore]

\* the loop with each accepted item put in front of the list
RECURSIVE FilterLoopPrepend(_, _, _, _, _)
FilterLoopPrepend(items, filtered, keywords, threshold, db) ==
    IF items = <<>> THEN filtered
    ELSE LET item == Head(items)
             text == ItemText(item)
             docs_and_scores == similarity_search_with_score(db, text)
         IN  IF keyword_hit(keywords, text) \/ semantic_hit(docs_and_scores, threshold)
             THEN FilterLoopPrepend(Tail(items),
                                    <<Annotated(item, docs_and_scores)>> \o filtered,
                                    keywords, threshold, db)
             ELSE FilterLoopPrepend(Tail(items), filtered, keywords, threshold, db)

\* the loop over items, from the items left and the list filtered so far
RECURSIVE FilterLoop(_, _, _, _, _)
FilterLoop(items, filtered, keywords, threshold, db) ==
    IF items = <<>> THEN filtered
    ELSE LET item == Head(items)
             text == ItemText(item)
             docs_and_scores == similarity_search_with_score(db, text)
         IN  IF keyword_hit(keywords, text) \/ semantic_hit(docs_and_scores, threshold)
             THEN FilterLoop(Tail(items), Append(filtered, Annotated(item, docs_and_scores)),
                             keywords, threshold, db)
             ELSE FilterLoop(Tail(items), filtered, keywords, threshold, db)

\* relevance_filter without the final slice
relevance_filter_uncut(items, icp, top_k, threshold, db) ==
    FilterLoop(items, <<>>, Keywords(icp), threshold, db)

\* relevance_filter(items, icp_json, top_k, threshold), for top_k >= 0
relevance_filter(items, icp, top_k, threshold, db) ==
    Slice(FilterLoop(items, <<>>, Keywords(icp), threshold, db), 0, top_k)

-----------------------------------------------------------------------------
(* TrendFetcher.build_queries, fetch_serpapi, parse_results *)

LBK == [k |-> "lbk", key |-> "[", val |-> NoVal]
RBK == [k |-> "rbk", key |-> "]", val |-> NoVal]
\* a string element of a JSON array, with the comma that separates it from its neighbour
Elem(s) == [k |-> "elem", key |-> "\"", val |-> StrVal(s)]

\* re.search(r"\[.*\]", response, re.S)
BracketMatch(r) ==
    LET L == Positions(r, "lbk")
        R == Positions(r, "rbk")
    IN  IF L # {} /\ R # {} /\ SetMin(L) < SetMax(R)
        THEN [found |-> TRUE, span |-> SubSeq(r, SetMin(L), SetMax(R))]
        ELSE [found |-> FALSE, span |-> <<>>]

\* whether json.loads accepts the span as an array of strings and numbers
IsJSONArray(r) ==
    LET c == NoWs(r)
    IN  /\ Len(c) >= 2
        /\ c[1].k = "lbk"
        /\ c[Len(c)].k = "rbk"
        /\ \A i \in 2..(Len(c) - 1) : c[i].k \in {"elem", "val"}

\* the list json.loads returns for it
ListOf(r) == LET c == NoWs(r) IN [i \in 1..(Len(c) - 2) |-> c[i + 1].val]

\* the characters re.sub(r"[^a-zA-Z0-9\s]", "", q) removes
Punctuation == {"-", ",", ".", "\"", ":", "{", "}", "[", "]"}
RemovePunctuation(q) == SelectSeq(q, LAMBDA c : c \notin Punctuation)

\* str.split(): the maximal runs of non-space characters
RECURSIVE Split(_)
Split(q) ==
    LET t == LStrip(q)
    IN  IF t = <<>> THEN <<>>
        ELSE LET n == IF \E i \in 1..Len(t) : IsSpace(t[i])
                      THEN SetMin({i \in 1..Len(t) : IsSpace(t[i])}) - 1
                      ELSE Len(t)
             IN  <<SubSeq(t, 1, n)>> \o Split(SubSeq(t, n + 1, Len(t)))

\* " ".join(words)
RECURSIVE Join(_)
Join(words) ==
    IF words = <<>> THEN <<>>
    ELSE IF Len(words) = 1 THEN words[1]
    ELSE words[1] \o <<" ">> \o Join(Tail(words))

\* f"{industry} trends"
TrendsQuery(industry) == industry \o <<" ", "t", "r", "e", "n", "d", "s">>

MinWords == 2
MaxWords == 4

\* the cleaning loop over queries: "TypeError" at an element that is no str
RECURSIVE CleanQueries(_, _)
CleanQueries(queries, cleaned) ==
    IF queries = <<>> THEN Returned(cleaned)
    ELSE IF Head(queries).ty # "str" THEN Raised("TypeError")
    ELSE LET words == Split(Strip(RemovePunctuation(Head(queries).s)))
         IN  IF MinWords <= Len(words) /\ Len(words) <= MaxWords
             THEN CleanQueries(Tail(queries), Append(cleaned, Join(words)))
             ELSE CleanQueries(Tail(queries), cleaned)

\* build_queries, from the reply on
build_queries(response, industry) ==
    LET match == BracketMatch(response)
    IN  IF match.found /\ ~IsJSONArray(match.span) THEN Raised("JSONDecodeError")
        ELSE LET queries == IF match.found THEN ListOf(match.span)
                            ELSE <<StrVal(TrendsQuery(industry))>>
                 res == CleanQueries(queries, <<>>)
             IN  IF res.raised THEN res
                 ELSE IF res.val # <<>> THEN res
                 ELSE Returned(<<TrendsQuery(industry)>>)

\* p["challenge"] / n["need"] on the dict entries, while the prompt is built
PromptKeyError(icp) ==
    \/ \E i \in 1..Len(icp.pains) : icp.pains[i].kind = "dict" /\ ~icp.pains[i].has
    \/ \E i \in 1..Len(icp.needs) : icp.needs[i].kind = "dict" /\ ~icp.needs[i].has

\* fetch_serpapi: the JSON body on status 200, {} otherwise; an exception of
\* requests.get is not caught
fetch_serpapi(outcome, page) ==
    CASE outcome = "exception" -> Raised("RequestException")
      [] outcome = "ok" -> Returned(page)
      [] OTHER -> Returned(<<>>)

\* parse_results(data, "google_news"): title and snippet, None where the result has none
parse_results(news_results) ==
    [i \in 1..Len(news_results) |->
        [title |-> news_results[i].title, description |-> news_results[i].snippet]]

\* top_k=10 of run
RunTopK == 10

\* replies to the query prompt
QueryReplies ==
    { <<LBK, Elem(<<"a", " ", "b">>), RBK>>,
      <<Ch("a"), LBK, Elem(<<"a", " ", "b">>), Elem(<<"b", "-", "a", " ", " ", "x">>),
        Elem(<<"a">>), RBK>>,
      Prose(<<"a", "b">>),
      <<LBK, Elem(<<"a">>), RBK>>,
      <<LBK, RBK>>,
      <<LBK, Scalar, RBK>>,
      <<LBK, Ch("a"), RBK>> }

\* what the search API answers to one request
HitResult == [title |-> <<"A", "b">>, snippet |-> PyNone]
MissResult == [title |-> <<"x">>, snippet |-> <<"x">>]
ApiPages ==
    { <<>>,
      <<MissResult, HitResult>>,
      [j \in 1..RunTopK |-> IF j = 2 THEN MissResult ELSE HitResult] }

-----------------------------------------------------------------------------
(* TrendFetcher *)

NoCall == [call |-> FALSE, items |-> <<>>, icp |-> NicheSample, top_k |-> 0]
NotReturned == [done |-> FALSE, list |-> <<>>]

\* TrendFetcher is not running
TfOff ==
    /\ vectordb = [empty |-> TRUE, high |-> {}]
    /\ newsFile = Absent
    /\ rf_in = NoCall
    /\ rf_out = NotReturned
    /\ tf_pc = "off"
    /\ tf_icp = NicheSample
    /\ tf_queries = <<>>
    /\ tf_items = <<>>
    /\ tf_err = ""

\* the run ends, by an exception or by its return
TfEnd(pc, err) ==
    /\ tf_pc' = pc
    /\ tf_err' = err
    /\ UNCHANGED <<tf_icp, tf_queries, tf_items>>

\* relevance_filter(items, icp_json, top_k) with the default threshold
ApplyRelevanceFilter ==
    /\ rf_in.call
    /\ ~rf_out.done
    /\ rf_out' = [done |-> TRUE,
                  list |-> relevance_filter(rf_in.items, rf_in.icp, rf_in.top_k,
                                            ThresholdHundredths, vectordb)]
    /\ UNCHANGED <<blogDirExists, otherVars, now, nicheFile, usedFile, blogDir, bgVars, vectordb, newsFile, rf_in,
                   tf_pc, tf_icp, tf_queries, tf_items, tf_err>>

\* run: open(icp_json_path) and json.load
TrendRun_Start ==
    /\ tf_pc = "idle"
    /\ IF nicheFile.st = "absent"
       THEN TfEnd("raised", "FileNotFoundError")
       ELSE /\ tf_pc' = "queries"
            /\ tf_icp' = nicheFile.val
            /\ UNCHANGED <<tf_queries, tf_items, tf_err>>
    /\ UNCHANGED <<blogDirExists, otherVars, now, nicheFile, usedFile, blogDir, bgVars, vectordb, newsFile, rf_in, rf_out>>

\* queries = self.build_queries(icp_json)
TrendRun_BuildQueries ==
    /\ tf_pc = "queries"
    /\ IF PromptKeyError(tf_icp)
       THEN TfEnd("raised", "KeyError")
       ELSE \E response \in QueryReplies :
               LET res == build_queries(response, tf_icp.industry)
               IN  IF res.raised
                   THEN TfEnd("raised", res.err)
                   ELSE /\ tf_pc' = "fetch"
                        /\ tf_queries' = res.val
                        /\ UNCHANGED <<tf_icp, tf_items, tf_err>>
    /\ UNCHANGED <<blogDirExists, otherVars, now, nicheFile, usedFile, blogDir, bgVars, vectordb, newsFile, rf_in, rf_out>>

\* one turn of the loop over queries: fetch_serpapi, parse_results, extend
TrendRun_Fetch ==
    /\ tf_pc = "fetch"
    /\ tf_queries # <<>>
    /\ \E outcome \in FetchOutcomes, page \in ApiPages :
          LET raw == fetch_serpapi(outcome, page)
          IN  IF raw.raised
              THEN TfEnd("raised", raw.err)
              ELSE /\ tf_items' = tf_items \o parse_results(raw.val)
                   /\ tf_queries' = Tail(tf_queries)
                   /\ UNCHANGED <<tf_pc, tf_icp, tf_err>>
    /\ UNCHANGED <<blogDirExists, otherVars, now, nicheFile, usedFile, blogDir, bgVars, vectordb, newsFile, rf_in, rf_out>>

\* after the loop: relevance_filter(all_items, icp_json, top_k=10) and the write
TrendRun_FilterAndWrite ==
    /\ tf_pc = "fetch"
    /\ tf_queries = <<>>
    /\ newsFile' = Holding(relevance_filter(tf_items, tf_icp, RunTopK,
                                            ThresholdHundredths, vectordb))
    /\ TfEnd("done", "")
    /\ UNCHANGED <<blogDirExists, otherVars, now, nicheFile, usedFile, blogDir, bgVars, vectordb, rf_in, rf_out>>

-----------------------------------------------------------------------------
(* Values of more than one level, and json.dump(..., ensure_ascii=False)   *)
(* into a file opened with encoding="utf-8"                                *)

\* the code unit json.loads makes of a "\ud800" escape that has no partner
LoneSurrogate == "<ud800>"

\* an object with its members in order, and a list with its elements
ObjVal(members) == [ty |-> "obj", s |-> <<>>, m |-> members]
ListVal(elements) == [ty |-> "list", s |-> <<>>, m |-> elements]

\* the dict of an object value
Members(v) == DictOf(<<LB>> \o v.m \o <<RB>>)

\* whether UTF-8 can encode all the text of a value
RECURSIVE Encodable(_)
Encodable(v) ==
    CASE v.ty = "str" -> \A i \in 1..Len(v.s) : v.s[i] # LoneSurrogate
      [] v.ty \in {"obj", "list"} -> \A i \in 1..Len(v.m) : Encodable(v.m[i].val)
      [] OTHER -> TRUE

\* a file whose content json.load rejects; val is what can still be read in it
Unparseable(v) == [st |-> "bad", val |-> v]

\* open(path, "w") and json.dump: the file is emptied first, and a text that cannot
\* be encoded breaks the dump off
json_dump(v, encodable) == IF encodable THEN Holding(v) ELSE Unparseable(<<>>)

\* whether json.loads accepts the text: an object, an array or one scalar
Loads(r) == IsJSONObject(r) \/ IsJSONArray(r) \/ IsJSONScalar(r)

\* the value json.loads returns for it
JSONValue(r) ==
    LET c == NoWs(r)
    IN  CASE IsJSONObject(r) -> ObjVal(SubSeq(c, 2, Len(c) - 1))
          [] IsJSONArray(r) -> ListVal(SubSeq(c, 2, Len(c) - 1))
          [] OTHER -> c[1].val

\* exceptions carry their type and, for the ValueError of get_context, the id it names
NoError == [type |-> "", id |-> 0]
Err(type) == [type |-> type, id |-> 0]
TopicNotFound(topic_id) == [type |-> "ValueError", id |-> topic_id]

HasNoGet == "AttributeError: object has no attribute 'get'"

-----------------------------------------------------------------------------
(* ContentGenerator *)

Platforms == <<"linkedin", "twitter", "youtube">>

\* clean_response(response)
clean_response(response) ==
    IF Loads(response) THEN Returned(JSONValue(response))
    ELSE LET match == BraceMatch(response)
         IN  IF ~match.found THEN Returned(ObjVal(<<>>))
             ELSE IF Loads(match.span) THEN Returned(JSONValue(match.span))
             ELSE Raised("JSONDecodeError")

\* value.get(key, default) on a value that may be no dict
ValueGet(v, key, default) ==
    IF v.ty # "obj" THEN Raised(HasNoGet) ELSE Returned(GetOr(Members(v), key, default))

\* generate_<platform>_content, from the reply on
generate_content(platform, response) ==
    LET cleaned == clean_response(response)
    IN  IF cleaned.raised THEN cleaned ELSE ValueGet(cleaned.val, platform, ObjVal(<<>>))

\* next((t for t in topics if t["id"] == topic_id), None), without the test
\* that follows it: the first topic when none has the id
SelectedTopicOrFirst(topics, topic_id) ==
    LET M == {i \in 1..Len(topics) : topics[i].id = topic_id}
    IN  IF M # {} THEN [found |-> TRUE, topic |-> topics[SetMin(M)]]
        ELSE IF topics # <<>> THEN [found |-> TRUE, topic |-> topics[1]]
        ELSE [found |-> FALSE, topic |-> [id |-> 0, title |-> <<>>]]

\* next((t for t in topics if t["id"] == topic_id), None) and `if not selected_topic`
SelectedTopic(topics, topic_id) ==
    LET M == {i \in 1..Len(topics) : topics[i].id = topic_id}
    IN  IF M # {} THEN [found |-> TRUE, topic |-> topics[SetMin(M)]]
        ELSE [found |-> FALSE, topic |-> [id |-> 0, title |-> <<>>]]

\* the keys each platform's data takes from its post: data key -> post key
CaptionKey(platform) ==
    CASE platform = "linkedin" -> "caption"
      [] platform = "twitter" -> "tweet"
      [] OTHER -> "description"

TagsKey(platform) == IF platform = "youtube" THEN "tags" ELSE "hashtags"

\* the data dicts built with <platform>_post.get(key), without the defaults: None
\* for a key the post has not
PlatformDataNoDefault(platform, topic, post) ==
    LET d == Members(post)
        base == [id |-> topic.id,
                 title |-> StrVal(topic.title),
                 caption |-> GetOr(d, CaptionKey(platform), NoVal),
                 hashtags |-> GetOr(d, TagsKey(platform), NoVal)]
    IN  IF platform = "youtube"
        THEN [id |-> base.id, title |-> base.title,
              script_intro |-> GetOr(d, "script_intro", NoVal),
              caption |-> base.caption, hashtags |-> base.hashtags]
        ELSE base

\* linkedin_data, twitter_data, youtube_data of run, from a post that is a dict
PlatformData(platform, topic, post) ==
    LET d == Members(post)
        base == [id |-> topic.id,
                 title |-> StrVal(topic.title),
                 caption |-> GetOr(d, CaptionKey(platform), StrVal(<<>>)),
                 hashtags |-> GetOr(d, TagsKey(platform), ListVal(<<>>))]
    IN  IF platform = "youtube"
        THEN [id |-> base.id, title |-> base.title,
              script_intro |-> GetOr(d, "script_intro", StrVal(<<>>)),
              caption |-> base.caption, hashtags |-> base.hashtags]
        ELSE base

\* whether the file can take the data
EncodableData(data) == \A f \in DOMAIN data \ {"id"} : Encodable(data[f])

\* the first of the three writes only
WriteFirstOnly(files, topic, posts, i) ==
    LET p == Platforms[i]
    IN  [files |-> [files EXCEPT ![p] = json_dump(PlatformData(p, topic, posts[p]), TRUE)],
         err |-> NoError]

\* the three writes of run in their order, from the write of platform number i on:
\* the first dump that breaks off ends the run
RECURSIVE WriteAll(_, _, _, _)
WriteAll(files, topic, posts, i) ==
    IF i > Len(Platforms) THEN [files |-> files, err |-> NoError]
    ELSE LET p == Platforms[i]
             data == PlatformData(p, topic, posts[p])
         IN  IF EncodableData(data)
             THEN WriteAll([files EXCEPT ![p] = json_dump(data, TRUE)], topic, posts, i + 1)
             ELSE [files |-> [files EXCEPT ![p] = json_dump(data, FALSE)],
                   err |-> Err("UnicodeEncodeError")]

\* topics files, and the ids run is called with
Topic1 == [id |-> 1, title |-> <<"a", "b">>]
Topic2 == [id |-> 2, title |-> <<"b", " ", "a">>]
TopicFiles == {Absent, Holding(<<>>), Holding(<<Topic1>>), Holding(<<Topic1, Topic2>>)}
TopicIds == {1, 2, 3}

\* the content a run of before left for a topic 9
OldData(platform) == PlatformData(platform, [id |-> 9, title |-> <<"x">>], ObjVal(<<>>))
NoContent == [p \in {"linkedin", "twitter", "youtube"} |-> Absent]
OldContent == [p \in {"linkedin", "twitter", "youtube"} |-> Holding(OldData(p))]

\* replies to the prompt of one platform
ContentReplies(platform) ==
    { <<LB, Mem(platform, ObjVal(<<Mem(CaptionKey(platform), StrVal(<<"a">>)),
                                   Mem(TagsKey(platform), ListVal(<<Elem(<<"b">>)>>))>>)), RB>>,
      <<Ch("a"), LB, Mem(platform, ObjVal(<<>>)), RB>>,
      Prose(<<"a">>),
      <<LB, Ch("a"), RB>>,
      <<Scalar>>,
      <<LB, Mem(platform, StrVal(<<"a">>)), RB>>,
      <<LB, Mem(platform, ObjVal(<<Mem(CaptionKey(platform), StrVal(<<LoneSurrogate>>))>>)), RB>>,
      \* "hashtags": null
      <<LB, Mem(platform, ObjVal(<<Mem(CaptionKey(platform), StrVal(<<"b">>)),
                                   Mem(TagsKey(platform), NoVal)>>)), RB>> }

NoPosts == [p \in {"linkedin", "twitter", "youtube"} |-> ObjVal(<<>>)]
NoTopic == [id |-> 0, title |-> <<>>]
NoNiche == [isList |-> TRUE, val |-> <<>>]

\* ContentGenerator is not running
CgOff ==
    /\ cg_pc = "off"
    /\ cg_id = 0
    /\ cg_topic = NoTopic
    /\ cg_niche = NoNiche
    /\ cg_posts = NoPosts
    /\ cg_calls = 0
    /\ cg_err = NoError
    /\ cg_runs = 0

\* the run ends, by an exception or by its return: its locals are gone
CgEnd(pc, err) ==
    /\ cg_pc' = pc
    /\ cg_err' = err
    /\ cg_topic' = NoTopic
    /\ cg_niche' = NoNiche
    /\ cg_posts' = NoPosts

\* run(topic_id, ...): get_context
ContentRun_GetContext ==
    /\ cg_pc \in {"idle", "done", "raised"}
    /\ cg_runs < MaxRuns
    /\ cg_runs' = cg_runs + 1
    /\ cg_calls' = 0
    /\ \E topic_id \in TopicIds :
          LET topics == load_json(topicsFile).val
              selected_topic == SelectedTopic(topics, topic_id)
          IN  /\ cg_id' = topic_id
              /\ IF ~selected_topic.found
                 THEN CgEnd("raised", TopicNotFound(topic_id))
                 ELSE /\ cg_pc' = "linkedin"
                      /\ cg_topic' = selected_topic.topic
                      /\ cg_niche' = load_json(nicheFile)
                      /\ cg_posts' = NoPosts
                      /\ cg_err' = NoError
    /\ UNCHANGED <<now, nicheFile, usedFile, blogDir, blogDirExists, bgVars, tfVars, cm2Vars, callVars,
                   topicsFile, contentFiles, perfFile, insightsFile, cmVars, anVars>>

\* the stage after a platform's generation
StageAfter(platform) ==
    CASE platform = "linkedin" -> "twitter"
      [] platform = "twitter" -> "youtube"
      [] OTHER -> "write"

\* generate_linkedin_content, generate_twitter_content, generate_youtube_content
ContentRun_Generate ==
    /\ cg_pc \in {"linkedin", "twitter", "youtube"}
    /\ IF cg_niche.isList
       THEN \* niche.get(...) on the [] that load_json gave for the missing file
            /\ CgEnd("raised", Err(ListHasNoGet))
            /\ UNCHANGED cg_calls
       ELSE /\ cg_calls' = cg_calls + 1
            /\ \/ CgEnd("raised", Err("LLMError"))
               \/ \E response \in ContentReplies(cg_pc) :
                     LET res == generate_content(cg_pc, response)
                     IN  IF res.raised
                         THEN CgEnd("raised", Err(res.err))
                         ELSE /\ cg_posts' = [cg_posts EXCEPT ![cg_pc] = res.val]
                              /\ cg_pc' = StageAfter(cg_pc)
                              /\ UNCHANGED <<cg_topic, cg_niche, cg_err>>
    /\ UNCHANGED <<now, nicheFile, usedFile, blogDir, blogDirExists, bgVars, tfVars, cm2Vars, callVars,
                   topicsFile, contentFiles, perfFile, insightsFile, cmVars, anVars,
                   cg_id, cg_runs>>

\* the three data dicts, then the three writes
ContentRun_Write ==
    /\ cg_pc = "write"
    /\ IF \E i \in 1..Len(Platforms) : cg_posts[Platforms[i]].ty # "obj"
       THEN \* <platform>_post.get(...) on a post that is no dict
            /\ CgEnd("raised", Err(HasNoGet))
            /\ UNCHANGED contentFiles
       ELSE LET w == WriteAll(contentFiles, cg_topic, cg_posts, 1)
            IN  /\ contentFiles' = w.files
                /\ CgEnd(IF w.err = NoError THEN "done" ELSE "raised", w.err)
    /\ UNCHANGED <<now, nicheFile, usedFile, blogDir, blogDirExists, bgVars, tfVars, cm2Vars, callVars,
                   topicsFile, perfFile, insightsFile, cmVars, anVars,
                   cg_id, cg_calls, cg_runs>>

-----------------------------------------------------------------------------
(* collect_metrics *)

\* load_json_safe(path): None for a missing file and for one json.load rejects
load_json_safe(file) ==
    IF file.st = "ok" THEN [none |-> FALSE, val |-> file.val]
    ELSE [none |-> TRUE, val |-> <<>>]

\* the empty object {} as the content of a file
EmptyObject == [empty |-> TRUE]

\* `not data` for what load_json_safe gave: None, or a dict without keys
NoData(platform, loaded) ==
    \/ loaded.none
    \/ IF platform = "blog" THEN loaded.val = {} ELSE loaded.val = EmptyObject

\* None as a topic id
NoTopicId == -1

Untitled == StrVal(<<"U">>)

\* extract_metadata(platform, data) for data that is a dict
extract_metadata(platform, data) ==
    IF platform = "blog"
    THEN [topic_id |-> NoTopicId, title |-> GetOr(data, "title", Untitled)]
    ELSE [topic_id |-> data.id, title |-> data.title]

\* n / d cut to three decimals, in thousandths
Round3Truncated(n, d, up) == (1000 * n) \div d

\* round(x, 3) of the double x nearest to n / d, in thousandths. Where n / d lies
\* halfway between two thousandths, x lies a little above or a little below it and
\* round goes the way x lies: up tells which
Round3(n, d, up) ==
    LET q == (1000 * n) \div d
        twice == 2 * ((1000 * n) % d)
    IN  IF twice > d \/ (twice = d /\ up) THEN q + 1 ELSE q

\* generate_fake_metrics(), from the four numbers random.randint drew
generate_fake_metrics(draw) ==
    [impressions |-> draw.impressions, likes |-> draw.likes,
     comments |-> draw.comments, shares |-> draw.shares,
     engagement_rate |-> Round3(draw.likes + draw.comments + draw.shares,
                                draw.impressions, draw.up)]

\* draws of random.randint
MetricSamples ==
    { [impressions |-> 2000, likes |-> 300, comments |-> 60, shares |-> 50, up |-> TRUE],
      [impressions |-> 20000, likes |-> 41, comments |-> 5, shares |-> 5, up |-> TRUE] }

\* min in the place of max: the file written first
OldestBlog(dir) == CHOOSE f \in dir : \A g \in dir : g[1] >= f[1]

\* max(blog_files, key=os.path.getmtime): the file written last
LatestBlog(dir) == CHOOSE f \in dir : \A g \in dir : g[1] <= f[1]

\* what the loop loads for a platform
PlatformContent(platform, files, dir) ==
    IF platform = "blog"
    THEN IF dir = {} THEN [none |-> TRUE, val |-> <<>>]
         ELSE [none |-> FALSE, val |-> LatestBlog(dir)[2]]
    ELSE load_json_safe(files[platform])

CollectPlatforms == <<"linkedin", "twitter", "youtube", "blog">>

\* the loop over platforms, from platform number i on, with the draws of each turn
RECURSIVE CollectLoop(_, _, _, _, _, _)
CollectLoop(all_data, files, dir, draws, stamp, i) ==
    IF i > Len(CollectPlatforms) THEN all_data
    ELSE LET platform == CollectPlatforms[i]
             loaded == PlatformContent(platform, files, dir)
         IN  IF NoData(platform, loaded)
             THEN CollectLoop(all_data, files, dir, draws, stamp, i + 1)
             ELSE LET meta == extract_metadata(platform, loaded.val)
                      record == [topic_id |-> meta.topic_id, platform |-> platform,
                                 title |-> meta.title,
                                 metrics |-> generate_fake_metrics(draws[i]),
                                 timestamp |-> stamp]
                  IN  CollectLoop(Append(all_data, record), files, dir, draws, stamp, i + 1)

\* a record of a run of before
OldRecord ==
    [topic_id |-> 9, platform |-> "linkedin", title |-> StrVal(<<"x">>),
     metrics |-> generate_fake_metrics(CHOOSE m \in MetricSamples : m.impressions = 2000),
     timestamp |-> 0]

\* collect_metrics is not running
CmOff ==
    /\ cm_pc = "off"
    /\ cm_all_data = <<>>
    /\ cm_existing = <<>>
    /\ cm_err = ""
    /\ cm_runs = 0

CmEnd(pc, err) ==
    /\ cm_pc' = pc
    /\ cm_err' = err
    /\ cm_all_data' = <<>>
    /\ cm_existing' = <<>>

\* collect_metrics: the loop over platforms
Collect_Platforms ==
    /\ cm_pc \in {"idle", "done", "raised"}
    /\ cm_runs < MaxRuns
    /\ cm_runs' = cm_runs + 1
    /\ IF ~blogDirExists
       THEN \* os.listdir(BLOG_DIR) in the last turn
            CmEnd("raised", "FileNotFoundError")
       ELSE \E draws \in [1..Len(CollectPlatforms) -> MetricSamples] :
               LET all_data == CollectLoop(<<>>, contentFiles, blogDir, draws, now, 1)
               IN  IF all_data = <<>>
                   THEN CmEnd("done", "")
                   ELSE /\ cm_pc' = "read"
                        /\ cm_all_data' = all_data
                        /\ UNCHANGED <<cm_existing, cm_err>>
    /\ UNCHANGED <<now, nicheFile, usedFile, blogDir, blogDirExists, bgVars, tfVars, cm2Vars, callVars,
                   topicsFile, contentFiles, perfFile, insightsFile, cgVars, anVars>>

\* existing = load_json_safe(OUTPUT_FILE) or []; existing.extend(all_data)
Collect_ReadExisting ==
    /\ cm_pc = "read"
    /\ LET loaded == load_json_safe(perfFile)
       IN  cm_existing' = (IF loaded.none THEN <<>> ELSE loaded.val) \o cm_all_data
    /\ cm_pc' = "write"
    /\ UNCHANGED <<cm_all_data, cm_err, cm_runs>>
    /\ UNCHANGED <<now, nicheFile, usedFile, blogDir, blogDirExists, bgVars, tfVars, cm2Vars, callVars,
                   topicsFile, contentFiles, perfFile, insightsFile, cgVars, anVars>>

\* a write-back that loads the file again and extends what it holds then
Collect_WriteBackMerged ==
    /\ cm_pc = "write"
    /\ LET loaded == load_json_safe(perfFile)
       IN  perfFile' = Holding((IF loaded.none THEN <<>> ELSE loaded.val) \o cm_all_data)
    /\ CmEnd("done", "")
    /\ UNCHANGED cm_runs
    /\ UNCHANGED <<now, nicheFile, usedFile, blogDir, blogDirExists, bgVars, tfVars, cm2Vars, callVars,
                   topicsFile, contentFiles, insightsFile, cgVars, anVars>>

\* open(OUTPUT_FILE, "w") and json.dump(existing, ...)
Collect_WriteBack ==
    /\ cm_pc = "write"
    /\ LET encodable == \A i \in 1..Len(cm_existing) : Encodable(cm_existing[i].title)
       IN  /\ perfFile' = json_dump(cm_existing, encodable)
           /\ CmEnd(IF encodable THEN "done" ELSE "raised",
                    IF encodable THEN "" ELSE "UnicodeEncodeError")
    /\ UNCHANGED cm_runs
    /\ UNCHANGED <<now, nicheFile, usedFile, blogDir, blogDirExists, bgVars, tfVars, cm2Vars, callVars,
                   topicsFile, contentFiles, insightsFile, cgVars, anVars>>

-----------------------------------------------------------------------------
(* LLMPerformanceAnalyzer *)

\* str.find and str.rfind of a brace: the index from 0, or -1
Find(r, kind) == IF Positions(r, kind) = {} THEN -1 ELSE SetMin(Positions(r, kind)) - 1
RFind(r, kind) == IF Positions(r, kind) = {} THEN -1 ELSE SetMax(Positions(r, kind)) - 1

\* s[lo:hi] of Python for lo >= -Len(s)-1 and hi >= 0: a negative lo counts from the end
PySlice(s, lo, hi) == Slice(s, IF lo < 0 THEN Max(Len(s) + lo, 0) ELSE lo, hi)

\* analyze_with_llm, from the reply on
analyze_with_llm(response) ==
    IF Loads(response) THEN Returned(JSONValue(response))
    ELSE LET start == Find(response, "lb")
             end == RFind(response, "rb") + 1
             cut == PySlice(response, start, end)
         IN  IF Loads(cut) THEN Returned(JSONValue(cut)) ELSE Raised("JSONDecodeError")

\* LLMPerformanceAnalyzer.load_json: [] for a missing file; json.load raises on a bad one
analyzer_load_json(file) ==
    CASE file.st = "absent" -> Returned(<<>>)
      [] file.st = "bad" -> Raised("JSONDecodeError")
      [] OTHER -> Returned(file.val)

\* the exception of the lines that print the analysis, "" when they all run
Display(analysis) ==
    IF analysis.ty # "obj" THEN "TypeError"
    ELSE IF ~HasKey(Members(analysis), "summary") THEN "KeyError"
    ELSE LET summary == Get(Members(analysis), "summary")
         IN  IF summary.ty # "obj" THEN "TypeError"
             ELSE IF ~HasKey(Members(summary), "platforms") THEN "KeyError"
             ELSE IF Get(Members(summary), "platforms").ty # "obj" THEN "AttributeError"
             ELSE IF \E p \in Members(Get(Members(summary), "platforms")) : p[2].ty # "obj"
                  THEN "AttributeError"
             ELSE IF ~HasKey(Members(summary), "global_insights") THEN "KeyError"
             ELSE LET g == Get(Members(summary), "global_insights")
                  IN  IF g.ty # "obj" THEN "TypeError"
                      ELSE IF \E k \in {"top_performing_titles", "common_success_factors",
                                        "overall_recommendation"} : ~HasKey(Members(g), k)
                           THEN "KeyError"
                      ELSE IF Get(Members(g), "top_performing_titles").ty \notin {"list", "str"}
                           THEN "TypeError"
                      ELSE ""

\* the summary the prompt asks for
GlobalInsights ==
    ObjVal(<<Mem("top_performing_titles", ListVal(<<Elem(<<"a">>)>>)),
             Mem("common_success_factors", StrVal(<<"b">>)),
             Mem("overall_recommendation", StrVal(<<"b">>))>>)
Summary ==
    ObjVal(<<Mem("platforms", ObjVal(<<Mem("linkedin", ObjVal(<<>>))>>)),
             Mem("global_insights", GlobalInsights)>>)

\* replies to the analysis prompt
AnalyzerReplies ==
    { <<LB, Mem("summary", Summary), RB>>,
      <<Ch("a"), LB, Mem("summary", Summary), RB, Ch("b")>>,
      <<Ch(" "), LB, Mem("summary", Summary), RB>>,
      Prose(<<"a", "b">>),
      <<>>,
      <<LB, Ch("a"), RB>>,
      <<RB, Ch("a"), LB>>,
      <<Ch("a"), RB>>,
      <<LB, RB, Ch("a"), LB, RB>>,
      <<Scalar>>,
      <<LBK, Elem(<<"a">>), RBK>>,
      <<Ch("a"), LBK, LB, RB, RBK>>,
      <<LB, Mem("title", StrVal(<<"b">>)), RB>>,
      <<LB, Mem("summary", ObjVal(<<Mem("platforms", ObjVal(<<>>))>>)), RB>>,
      <<LB, Mem("summary", StrVal(<<"a", LoneSurrogate>>)), RB>> }

\* no reply yet
NoReply == <<Ch("?")>>

OldInsights == ObjVal(<<Mem("summary", StrVal(<<"x">>))>>)

\* LLMPerformanceAnalyzer is not running
AnOff ==
    /\ an_pc = "off"
    /\ an_reply = NoReply
    /\ an_analysis = NoVal
    /\ an_err = ""
    /\ an_runs = 0

AnEnd(pc, err) ==
    /\ an_pc' = pc
    /\ an_err' = err
    /\ an_analysis' = NoVal

\* run: data = self.load_json(PERFORMANCE_FILE) and the test of it
AnalyzerRun_Load ==
    /\ an_pc \in {"idle", "done", "raised"}
    /\ an_runs < MaxRuns
    /\ an_runs' = an_runs + 1
    /\ an_reply' = NoReply
    /\ LET data == analyzer_load_json(perfFile)
       IN  IF data.raised THEN AnEnd("raised", data.err)
           ELSE IF data.val = <<>> THEN AnEnd("done", "")
           ELSE /\ an_pc' = "analyze"
                /\ an_err' = ""
                /\ UNCHANGED an_analysis
    /\ UNCHANGED <<now, nicheFile, usedFile, blogDir, blogDirExists, bgVars, tfVars, cm2Vars, callVars,
                   topicsFile, contentFiles, perfFile, insightsFile, cgVars, cmVars>>

\* analysis = self.analyze_with_llm(data) and the write of the insights file
AnalyzerRun_Analyze ==
    /\ an_pc = "analyze"
    /\ \/ \* self.llm.invoke raises
          /\ AnEnd("raised", "LLMError")
          /\ UNCHANGED <<an_reply, insightsFile>>
       \/ \E response \in AnalyzerReplies :
             LET res == analyze_with_llm(response)
             IN  /\ an_reply' = response
                 /\ IF res.raised
                    THEN /\ AnEnd("raised", res.err)
                         /\ UNCHANGED insightsFile
                    ELSE /\ insightsFile' = json_dump(res.val, Encodable(res.val))
                         /\ IF Encodable(res.val)
                            THEN /\ an_pc' = "display"
                                 /\ an_analysis' = res.val
                                 /\ UNCHANGED an_err
                            ELSE AnEnd("raised", "UnicodeEncodeError")
    /\ UNCHANGED <<now, nicheFile, usedFile, blogDir, blogDirExists, bgVars, tfVars, cm2Vars, callVars,
                   topicsFile, contentFiles, perfFile, cgVars, cmVars, an_runs>>

\* the lines that print the summary
AnalyzerRun_Display ==
    /\ an_pc = "display"
    /\ LET e == Display(an_analysis)
       IN  AnEnd(IF e = "" THEN "done" ELSE "raised", e)
    /\ UNCHANGED <<now, nicheFile, usedFile, blogDir, blogDirExists, bgVars, tfVars, cm2Vars, callVars,
                   topicsFile, contentFiles, perfFile, insightsFile, cgVars, cmVars,
                   an_reply, an_runs>>

\* ContentGenerator, collect_metrics and LLMPerformanceAnalyzer are not running
OthersOff ==
    /\ topicsFile = Absent
    /\ contentFiles = NoContent
    /\ perfFile = Absent
    /\ insightsFile = Absent
    /\ CgOff
    /\ CmOff
    /\ AnOff

-----------------------------------------------------------------------------
(* The inputs of BlogGenerator *)

\* titles: "ab", "AB", "aba", "bb"
TopicSamples ==
    { <<"a", "b">>, <<"A", "B">>, <<"a", "b", "a">>, <<"b", "b">> }

\* histories the file can hold when a run starts
UsedSamples ==
    { << [title |-> StrVal(<<"a", "b">>), generated_on |-> 0] >>,
      << [title |-> StrVal(<<"a", "b", "a", "b">>), generated_on |-> 0] >>,
      << [title |-> StrVal(<<"a", "b", "b">>), generated_on |-> 0],
         [title |-> StrVal(<<>>), generated_on |-> 0] >> }

\* replies to the topic prompt
TopicReplies ==
    { <<LB, Mem("topic", StrVal(t)), RB>> : t \in TopicSamples }
    \cup { Prose(<<" ", "a", "b", " ">>), <<>> }
    \cup { <<Ch("a"), LB, Ch(" "), Mem("topic", StrVal(<<"b", "b">>)), RB, Ch("b")>>,
           <<LB, Mem("topic", NumVal), RB>>,
           <<LB, Mem("topic", StrVal(<<LoneSurrogate>>)), RB>>,
           <<LB, Ch("a"), RB>>,
           <<LB, Mem("title", StrVal(<<"b", "b">>)), RB>>,
           <<LB, Mem("topic", StrVal(<<"b", "b">>)), RB, Ch("a"), LB, RB>>,
           <<RB, Ch("a"), LB>> }

\* replies to the blog prompt
BlogReplies ==
    { <<Ch("a"), LB, Mem("title", StrVal(<<"b">>)), Mem("blog", StrVal(<<"b">>)), RB>>,
      <<LB, RB>>,
      Prose(<<"a", " ", "b">>),
      <<LB, Ch("a"), RB>> }

Article == [title |-> StrVal(<<"a">>), link |-> StrVal(<<"u">>)]
NewsResults == <<Article>>

-----------------------------------------------------------------------------
(* BlogGenerator *)

\* fetch_news: the normalised articles, or [] on a non-200 status or an exception
fetch_news(outcome, results) ==
    IF outcome = "ok"
    THEN [i \in 1..Len(results) |->
            [title |-> results[i].title, url |-> results[i].link, source |-> "Google News"]]
    ELSE <<>>

\* generate_topic, from the reply on
generate_topic(response) ==
    LET match == BraceMatch(response)
    IN  IF match.found
        THEN IF ~IsJSON(match.span) THEN Raised("JSONDecodeError")
             ELSE LET data == DictOf(match.span)
                  IN  IF HasKey(data, "topic") THEN Returned(Get(data, "topic"))
                      ELSE Raised("KeyError")
        ELSE Returned(StrVal(Strip(Text(response))))

\* generate_blog, from the reply on
generate_blog(response) ==
    LET match == BraceMatch(response)
    IN  IF match.found
        THEN IF ~IsJSON(match.span) THEN Raised("JSONDecodeError")
             ELSE Returned(DictOf(match.span))
        ELSE Returned({<<"blog", StrVal(Strip(Text(response)))>>})

\* BlogGenerator.save_used_topics: open(USED_TOPICS_FILE, "w", encoding="utf-8") and
\* json.dump(topics, f, indent=4, ensure_ascii=False)
save_used_topics(topics) ==
    json_dump(topics, \A i \in 1..Len(topics) : Encodable(topics[i].title))

\* any(self.is_similar(topic, t["title"]) for t in used_topics), from index i on:
\* "dup" at the first similar title, "raise" at a value without lower() met before one
RECURSIVE AnySimilar(_, _, _)
AnySimilar(topic, used, i) ==
    IF i > Len(used) THEN "fresh"
    ELSE IF topic.ty # "str" \/ used[i].title.ty # "str" THEN "raise"
    ELSE IF is_similar(topic.s, used[i].title.s) THEN "dup"
    ELSE AnySimilar(topic, used, i + 1)

\* os.path.join(OUTPUT_DIR, "blog_<%Y%m%d_%H%M%S>.json") opened with "w"
WriteBlog(dir, stamp, data) == {f \in dir : f[1] # stamp} \cup {<<stamp, data>>}

BgInit ==
    /\ bg_pc = "idle"
    /\ bg_mode = "manual"
    /\ bg_niche = [isList |-> TRUE, val |-> <<>>]
    /\ bg_used = <<>>
    /\ bg_topic = NoVal
    /\ bg_news = <<>>
    /\ bg_err = ""
    /\ bg_runs = 0

\* the run ends, by an exception or by its return: its locals are gone
BgEnd(pc, err) ==
    /\ bg_pc' = pc
    /\ bg_err' = err
    /\ bg_niche' = [isList |-> TRUE, val |-> <<>>]
    /\ bg_used' = <<>>
    /\ bg_topic' = NoVal
    /\ bg_news' = <<>>

\* run(mode): the loads, and in manual mode the topic typed in and its news
BlogRun_Start ==
    /\ bg_pc \in {"idle", "done", "raised"}
    /\ bg_runs < MaxRuns
    /\ bg_runs' = bg_runs + 1
    /\ \E mode \in {"manual", "automatic"} :
          /\ bg_mode' = mode
          /\ IF LoadRaises(usedFile)
             THEN BgEnd("raised", "JSONDecodeError")
             ELSE /\ bg_niche' = load_json(nicheFile)
                  /\ bg_used' = load_used_topics(usedFile)
                  /\ bg_err' = ""
                  /\ IF mode = "manual"
                     THEN \E t \in TopicSamples, o \in FetchOutcomes :
                             /\ bg_topic' = StrVal(Strip(t))
                             /\ bg_news' = fetch_news(o, NewsResults)
                             /\ bg_pc' = "blog"
                     ELSE /\ bg_topic' = NoVal
                          /\ bg_news' = <<>>
                          /\ bg_pc' = "gen"
    /\ UNCHANGED <<blogDirExists, otherVars, now, nicheFile, usedFile, blogDir, tfVars>>

\* topic = self.generate_topic(niche), before the loop and inside it
BlogRun_GenerateTopic ==
    /\ bg_pc = "gen"
    /\ \E response \in TopicReplies :
          LET res == generate_topic(response)
          IN  IF res.raised
              THEN BgEnd("raised", res.err)
              ELSE /\ bg_pc' = "dedup"
                   /\ bg_topic' = res.val
                   /\ UNCHANGED <<bg_err, bg_niche, bg_used, bg_news>>
    /\ UNCHANGED <<blogDirExists, otherVars, now, nicheFile, usedFile, blogDir, bg_mode, bg_runs, tfVars>>

\* the while test, and after it either the regeneration or the acceptance:
\* fetch_news, the append to used_topics and save_used_topics
BlogRun_Dedup ==
    /\ bg_pc = "dedup"
    /\ LET test == AnySimilar(bg_topic, bg_used, 1)
       IN  CASE test = "raise" ->
                  /\ BgEnd("raised", NoLower)
                  /\ UNCHANGED usedFile
             [] test = "dup" ->
                  /\ bg_pc' = "gen"
                  /\ UNCHANGED <<usedFile, bg_used, bg_news, bg_err, bg_niche, bg_topic>>
             [] OTHER ->
                  LET used_topics == Append(bg_used, [title |-> bg_topic, generated_on |-> now])
                  IN  /\ usedFile' = save_used_topics(used_topics)
                      /\ IF usedFile'.st = "ok"
                         THEN /\ \E o \in FetchOutcomes : bg_news' = fetch_news(o, NewsResults)
                              /\ bg_used' = used_topics
                              /\ bg_pc' = "blog"
                              /\ UNCHANGED <<bg_err, bg_niche, bg_topic>>
                         ELSE BgEnd("raised", "UnicodeEncodeError")
    /\ UNCHANGED <<blogDirExists, otherVars, now, nicheFile, blogDir, bg_mode, bg_runs, tfVars>>

\* build_pdf_context, generate_blog and the write of the blog file
BlogRun_WriteBlog ==
    /\ bg_pc = "blog"
    /\ IF bg_niche.isList
       THEN \* niche.get(...) on the [] that load_json gave for the missing file
            /\ BgEnd("raised", ListHasNoGet)
            /\ UNCHANGED blogDir
       ELSE \E response \in BlogReplies :
               LET res == generate_blog(response)
               IN  IF res.raised
                   THEN /\ BgEnd("raised", res.err)
                        /\ UNCHANGED blogDir
                   ELSE /\ blogDir' = WriteBlog(blogDir, now, res.val)
                        /\ BgEnd("done", "")
    \* os.makedirs(OUTPUT_DIR, exist_ok=True) comes before the write
    /\ blogDirExists' = (blogDirExists \/ blogDir' # blogDir)
    /\ UNCHANGED <<otherVars, now, nicheFile, usedFile, bg_mode, bg_runs, tfVars>>

\* time passes
Tick ==
    /\ now < MaxClock
    /\ now' = now + 1
    /\ UNCHANGED <<blogDirExists, otherVars, nicheFile, usedFile, blogDir, bgVars, tfVars>>

vars == <<now, nicheFile, usedFile, blogDir, bgVars, tfVars, blogDirExists, otherVars>>

InitBlog ==
    /\ now = 0
    /\ Cm2Off
    /\ CallOff
    /\ nicheFile \in {Absent, Holding(NicheSample)}
    /\ usedFile \in {Absent} \cup {Holding(u) : u \in UsedSamples}
    /\ blogDir = {}
    /\ BgInit
    /\ TfOff
    /\ blogDirExists = FALSE
    /\ OthersOff

NextBlog ==
    \/ BlogRun_Start
    \/ BlogRun_GenerateTopic
    \/ BlogRun_Dedup
    \/ BlogRun_WriteBlog
    \/ Tick

SpecBlog == InitBlog /\ [][NextBlog]_vars

\* the script runs on while it can; what the model returns is up to the model
FairSpecBlog == SpecBlog /\ WF_vars(NextBlog)

\* sequences of at most n elements of S
SeqsUpTo(S, n) == UNION {[1..k -> S] : k \in 0..n}

\* TrendFetcher: either relevance_filter is called on its own, or run is
InitTrend ==
    /\ now = 0
    /\ Cm2Off
    /\ CallOff
    /\ usedFile = Absent
    /\ blogDir = {}
    /\ BgInit
    /\ blogDirExists = FALSE
    /\ OthersOff
    /\ vectordb \in IndexSamples
    /\ tf_icp = NicheSample
    /\ tf_queries = <<>>
    /\ tf_items = <<>>
    /\ tf_err = ""
    /\ rf_out = NotReturned
    /\ \/ /\ tf_pc = "off"
          /\ nicheFile = Absent
          /\ newsFile = Absent
          /\ rf_in \in [call : {TRUE}, items : SeqsUpTo(ItemSamples, MaxItems),
                         icp : IcpSamples, top_k : 0..MaxTopK]
       \/ /\ tf_pc = "idle"
          /\ nicheFile \in {Absent} \cup {Holding(icp) : icp \in IcpSamples}
          /\ newsFile \in {Absent, Holding(<<>>)}
          /\ rf_in = NoCall

NextTrend ==
    \/ ApplyRelevanceFilter
    \/ TrendRun_Start
    \/ TrendRun_BuildQueries
    \/ TrendRun_Fetch
    \/ TrendRun_FilterAndWrite

SpecTrend == InitTrend /\ [][NextTrend]_vars

\* BlogGenerator is not running
BgOff ==
    /\ bg_pc = "off"
    /\ bg_mode = "manual"
    /\ bg_niche = NoNiche
    /\ bg_used = <<>>
    /\ bg_topic = NoVal
    /\ bg_news = <<>>
    /\ bg_err = ""
    /\ bg_runs = 0

\* ContentGenerator.run, called again and again
InitContent ==
    /\ now = 0
    /\ Cm2Off
    /\ CallOff
    /\ nicheFile \in {Absent, Holding(NicheSample)}
    /\ usedFile = Absent
    /\ blogDir = {}
    /\ blogDirExists = FALSE
    /\ BgOff
    /\ TfOff
    /\ topicsFile \in TopicFiles
    /\ contentFiles \in {NoContent, OldContent}
    /\ perfFile = Absent
    /\ insightsFile = Absent
    /\ cg_pc = "idle"
    /\ cg_id = 0
    /\ cg_topic = NoTopic
    /\ cg_niche = NoNiche
    /\ cg_posts = NoPosts
    /\ cg_calls = 0
    /\ cg_err = NoError
    /\ cg_runs = 0
    /\ CmOff
    /\ AnOff

NextContent ==
    \/ ContentRun_GetContext
    \/ ContentRun_Generate
    \/ ContentRun_Write

SpecContent == InitContent /\ [][NextContent]_vars

\* a blog of before
OldBlog == <<0, {<<"title", StrVal(<<"b">>)>>}>>
\* blogs written after it: one with a title, and the {} of a reply without members
NewBlog == <<1, {<<"title", StrVal(<<"c">>)>>}>>
EmptyBlog == <<1, {}>>
BlogDirSamples == {{}, {OldBlog}, {OldBlog, NewBlog}, {OldBlog, EmptyBlog}}

\* content files: none; LinkedIn only; all three; one that does not parse, an empty
\* object and a good one
ContentSamples ==
    { NoContent,
      [NoContent EXCEPT !["linkedin"] = Holding(OldData("linkedin"))],
      OldContent,
      [OldContent EXCEPT !["linkedin"] = Unparseable(<<>>),
                         !["twitter"] = Holding(EmptyObject)] }

\* the performance-data file when a run starts: missing, empty, with a record, and
\* with a record in a text that json.load rejects
PerfSamples == {Absent, Holding(<<>>), Holding(<<OldRecord>>), Unparseable(<<OldRecord>>)}

\* collect_metrics, called again and again
InitPerf ==
    /\ now = 0
    /\ Cm2Off
    /\ CallOff
    /\ nicheFile = Absent
    /\ usedFile = Absent
    /\ \/ blogDirExists = FALSE /\ blogDir = {}
       \/ blogDirExists = TRUE /\ blogDir \in BlogDirSamples
    /\ BgOff
    /\ TfOff
    /\ topicsFile = Absent
    /\ contentFiles \in ContentSamples
    /\ perfFile \in PerfSamples
    /\ insightsFile = Absent
    /\ CgOff
    /\ cm_pc = "idle"
    /\ cm_all_data = <<>>
    /\ cm_existing = <<>>
    /\ cm_err = ""
    /\ cm_runs = 0
    /\ AnOff

NextPerf ==
    \/ Collect_Platforms
    \/ Collect_ReadExisting
    \/ Collect_WriteBack

SpecPerf == InitPerf /\ [][NextPerf]_vars

\* LLMPerformanceAnalyzer.run, called again and again
InitAnalyzer ==
    /\ now = 0
    /\ Cm2Off
    /\ CallOff
    /\ nicheFile = Absent
    /\ usedFile = Absent
    /\ blogDir = {}
    /\ blogDirExists = FALSE
    /\ BgOff
    /\ TfOff
    /\ topicsFile = Absent
    /\ contentFiles = NoContent
    /\ perfFile \in PerfSamples
    /\ insightsFile \in {Absent, Holding(OldInsights)}
    /\ CgOff
    /\ CmOff
    /\ an_pc = "idle"
    /\ an_reply = NoReply
    /\ an_analysis = NoVal
    /\ an_err = ""
    /\ an_runs = 0

NextAnalyzer ==
    \/ AnalyzerRun_Load
    \/ AnalyzerRun_Analyze
    \/ AnalyzerRun_Display

SpecAnalyzer == InitAnalyzer /\ [][NextAnalyzer]_vars

-----------------------------------------------------------------------------
(* BlogGenerator: the claims *)

\* the similarity ratio of two values, where both are text, compared with 0.8 = 4/5
RatioExceeds(topic, title) ==
    /\ topic.ty = "str"
    /\ title.ty = "str"
    /\ LET r == Ratio(Lower(topic.s), Lower(title.s)) IN 5 * r[1] > 4 * r[2]

RatioAtMost(topic, title) ==
    /\ topic.ty = "str"
    /\ title.ty = "str"
    /\ LET r == Ratio(Lower(topic.s), Lower(title.s)) IN 5 * r[1] <= 4 * r[2]

\* C1: in automatic mode the step that settles a candidate accepts it (goes on to
\* the blog, appending it to the history file) only if its case-insensitive ratio is
\* at most 0.8 against every title the history held when the run started, and a
\* candidate whose ratio against some used title exceeds 0.8 leads back to
\* generate_topic.
C1_AcceptedTopicIsFresh ==
    [][ (bg_pc = "dedup" /\ bg_pc' # "dedup") =>
          /\ bg_used = load_used_topics(usedFile)
          /\ bg_pc' = "blog" =>
                /\ \A i \in 1..Len(bg_used) : RatioAtMost(bg_topic, bg_used[i].title)
                /\ usedFile'.st = "ok"
                /\ Len(usedFile'.val) = Len(bg_used) + 1
                /\ usedFile'.val[Len(usedFile'.val)].title = bg_topic
          /\ (\E i \in 1..Len(bg_used) : RatioExceeds(bg_topic, bg_used[i].title)) =>
                /\ bg_pc' = "gen"
                /\ usedFile' = usedFile
      ]_vars

\* an accepted candidate whose ratio against a title of the starting history is exactly 0.8
C1_Witness ==
    /\ bg_pc = "blog"
    /\ bg_mode = "automatic"
    /\ Len(bg_used) >= 2
    /\ \E i \in 1..(Len(bg_used) - 1) :
          LET r == Ratio(Lower(bg_topic.s), Lower(bg_used[i].title.s))
          IN  5 * r[1] = 4 * r[2]

\* C2: the regeneration loop is bounded: a run that asks for a topic ends, done or
\* with an error, whatever the generator returns.
C2_DedupLoopEnds == (bg_pc = "gen") ~> (bg_pc \in {"done", "raised"})

\* C3: generate_topic and generate_blog return a value for every reply: no run ends
\* in an exception of the parse of the reply or of the lookup of its key.
C3_NeverRaisesOnReply == bg_err \notin {"JSONDecodeError", "KeyError"}

\* C10: an absent niche or used-topics file is not fatal: a run that raises with such
\* a file absent raises for what the model replied, not for the missing file.
C10_AbsentInputNotFatal ==
    (bg_pc = "raised" /\ (nicheFile.st = "absent" \/ usedFile.st = "absent"))
        => bg_err \in {"JSONDecodeError", "KeyError", NoLower, "UnicodeEncodeError"}

-----------------------------------------------------------------------------
(* TrendFetcher: the claims *)

\* the hit condition as the specification words it
EntryTexts(entries) ==
    {Lower(entries[i].text) : i \in {j \in 1..Len(entries) :
        \/ entries[j].kind = "str"
        \/ entries[j].kind = "dict" /\ entries[j].has}}

KeywordSet(icp) ==
    ({Lower(icp.industry)} \cup EntryTexts(icp.pains) \cup EntryTexts(icp.needs)) \ {<<>>}

NearestScoreReaches(item, db) ==
    LET nn == similarity_search_with_score(db, ItemText(item))
    IN  Len(nn) > 0 /\ nn[1].score >= 65

KeywordMatches(item, icp) == \E kw \in KeywordSet(icp) : Contains(ItemText(item), kw)

Hit(item, icp, db) == KeywordMatches(item, icp) \/ NearestScoreReaches(item, db)

\* the accepted candidates before position i
HitsBefore(items, i, icp, db) == Cardinality({j \in 1..(i - 1) : Hit(items[j], icp, db)})

TitleContainsIndustry(item, icp) ==
    item.title # PyNone /\ Contains(Lower(item.title), Lower(icp.industry))

\* C5: relevance_filter returns at most top_k items, and the list run writes to the
\* filtered-news file has at most 10.
C5_AtMostTopK ==
    /\ rf_out.done => Len(rf_out.list) <= rf_in.top_k
    /\ newsFile.st = "ok" => Len(newsFile.val) <= 10

\* a run that fetched more than 10 candidates, all but one in ten of them hits, and wrote 10
C5_Witness ==
    /\ tf_pc = "done"
    /\ Cardinality({i \in 1..Len(tf_items) : Hit(tf_items[i], tf_icp, vectordb)}) > 10
    /\ Len(newsFile.val) = 10

\* C6, as first stated: every candidate whose title contains the industry string is in
\* the returned list, whatever its position and the number of other candidates.
C6_AlwaysRetained ==
    rf_out.done =>
        \A i \in 1..Len(rf_in.items) :
            TitleContainsIndustry(rf_in.items[i], rf_in.icp) =>
                \E k \in 1..Len(rf_out.list) :
                    /\ rf_out.list[k].title = rf_in.items[i].title
                    /\ rf_out.list[k].description = rf_in.items[i].description

\* C6, amended: a candidate whose title contains the non-empty industry string is
\* accepted whatever its score, and is returned, at the place its rank among the
\* accepted candidates gives it, when fewer than top_k accepted candidates precede it;
\* from rank top_k on it is cut.
C6_RetainedWithinTopK ==
    rf_out.done =>
        \A i \in 1..Len(rf_in.items) :
            (TitleContainsIndustry(rf_in.items[i], rf_in.icp) /\ rf_in.icp.industry # <<>>) =>
                LET n == HitsBefore(rf_in.items, i, rf_in.icp, vectordb)
                IN  IF n < rf_in.top_k
                    THEN /\ Len(rf_out.list) > n
                         /\ rf_out.list[n + 1].title = rf_in.items[i].title
                         /\ rf_out.list[n + 1].description = rf_in.items[i].description
                    ELSE Len(rf_out.list) <= n

\* a candidate with the industry in its title and a score below the threshold, returned
\* second
C6_Witness ==
    /\ rf_out.done
    /\ \E i \in 1..Len(rf_in.items) :
          /\ TitleContainsIndustry(rf_in.items[i], rf_in.icp)
          /\ rf_in.icp.industry # <<>>
          /\ ~NearestScoreReaches(rf_in.items[i], vectordb)
          /\ HitsBefore(rf_in.items, i, rf_in.icp, vectordb) = 1
          /\ Len(rf_out.list) = 2
          /\ rf_out.list[2].title = rf_in.items[i].title

\* C7: the result is the first top_k, in candidate order, of the candidates with a
\* keyword hit or a semantic hit, each with its own title and description and with the
\* nearest document and its score attached.
C7_FirstTopKOfHits ==
    rf_out.done =>
        LET hits == SelectSeq(rf_in.items, LAMBDA x : Hit(x, rf_in.icp, vectordb))
            n == IF Len(hits) < rf_in.top_k THEN Len(hits) ELSE rf_in.top_k
        IN  /\ Len(rf_out.list) = n
            /\ \A k \in 1..n :
                  LET nn == similarity_search_with_score(vectordb, ItemText(hits[k]))
                  IN  /\ rf_out.list[k].title = hits[k].title
                      /\ rf_out.list[k].description = hits[k].description
                      /\ rf_out.list[k].relevance_context =
                            (IF Len(nn) > 0 THEN nn[1].page_content ELSE <<>>)
                      /\ rf_out.list[k].similarity_score =
                            (IF Len(nn) > 0 THEN Score(nn[1].score) ELSE NoScore)

\* three candidates: a keyword hit below the threshold, a semantic hit without keyword,
\* one with neither; two were accepted and top_k cut them to a different first and last
C7_Witness ==
    /\ rf_out.done
    /\ Len(rf_in.items) = 3
    /\ \E i, j, l \in 1..3 :
          /\ KeywordMatches(rf_in.items[i], rf_in.icp)
          /\ ~NearestScoreReaches(rf_in.items[i], vectordb)
          /\ NearestScoreReaches(rf_in.items[j], vectordb)
          /\ ~KeywordMatches(rf_in.items[j], rf_in.icp)
          /\ ~Hit(rf_in.items[l], rf_in.icp, vectordb)
    /\ Len(rf_out.list) = 2
    /\ rf_out.list[1].title # rf_out.list[2].title

-----------------------------------------------------------------------------
(* LLMPerformanceAnalyzer: the claims *)

\* the text of a reply from its first "{" to its last "}", empty where it has none
FirstToLastBrace(r) ==
    LET m == BraceMatch(r) IN IF m.found THEN m.span ELSE <<>>

\* C4: the step of run that gets the reply ends the run with a JSON decode error and
\* leaves the insights file as it was when neither the reply nor the text from its
\* first "{" to its last "}" is valid JSON; when one of them is, the insights file
\* holds the parsed value after the step.
C4_ReplyDecidesInsights ==
    [][ (an_pc = "analyze" /\ an_pc' # "analyze" /\ an_reply' # NoReply) =>
          LET r == an_reply'
              cut == FirstToLastBrace(r)
          IN  IF ~Loads(r) /\ ~Loads(cut)
              THEN /\ an_pc' = "raised"
                   /\ an_err' = "JSONDecodeError"
                   /\ insightsFile' = insightsFile
              ELSE insightsFile' = Holding(JSONValue(IF Loads(r) THEN r ELSE cut)) ]_vars

-----------------------------------------------------------------------------
(* collect_metrics: the claims *)

\* C8: the step of collect_metrics that writes the performance-data file leaves a
\* valid file that holds the records the file held before it, in their order, followed
\* by the records of this run, whatever the file was (missing, valid, not parseable);
\* no other step changes the file.
C8_AppendOnly ==
    [][ IF cm_pc = "write"
        THEN /\ perfFile'.st = "ok"
             /\ perfFile'.val = perfFile.val \o cm_all_data
        ELSE perfFile' = perfFile ]_vars

-----------------------------------------------------------------------------
(* ContentGenerator: the claims *)

\* whether the topics file has an entry with the id
KnownId(file, topic_id) ==
    file.st = "ok" /\ \E i \in 1..Len(file.val) : file.val[i].id = topic_id

\* C9: a run called with a topic id that no entry of the topics file has ends in its
\* first step with the ValueError that names the id, with no LLM call made and the
\* three platform files as they were; and once a run has ended so, nothing is called
\* or written until another run starts.
C9_UnknownIdAborts ==
    [][ /\ (cg_runs' = cg_runs + 1 /\ ~KnownId(topicsFile, cg_id')) =>
              /\ cg_pc' = "raised"
              /\ cg_err' = [type |-> "ValueError", id |-> cg_id']
              /\ cg_calls' = 0
              /\ contentFiles' = contentFiles
        /\ (cg_pc = "raised" /\ cg_err.type = "ValueError" /\ cg_runs' = cg_runs) =>
              /\ cg_calls' = cg_calls
              /\ contentFiles' = contentFiles ]_vars

\* a run for topic 1 or 2 wrote the three files, and the next run, for the id 3 that
\* the two topics of the file do not have, ended with the ValueError and left them
C9_Witness ==
    /\ cg_runs = 2
    /\ cg_pc = "raised"
    /\ cg_err = [type |-> "ValueError", id |-> 3]
    /\ cg_calls = 0
    /\ topicsFile.st = "ok"
    /\ Len(topicsFile.val) = 2
    /\ \A i \in 1..Len(Platforms) :
          /\ contentFiles[Platforms[i]].st = "ok"
          /\ contentFiles[Platforms[i]].val.id \in {1, 2}

-----------------------------------------------------------------------------
(* The store accessors: the claims *)

\* C11: a run of LLMPerformanceAnalyzer that finds a performance-data file it cannot
\* parse goes on as it does for a missing file: load_json gives the empty value and
\* the run returns without an exception.
C11_UnparseableReadAsEmpty ==
    [][ (an_runs' = an_runs + 1 /\ perfFile.st = "bad") =>
          /\ an_pc' = "done"
          /\ an_err' = "" ]_vars

\* C12: a failed news fetch does not end the run of TrendFetcher: whatever the
\* request does (a status other than 200, an exception of the network, a timeout),
\* the turn of the query loop yields an empty result and the run goes on.
C12_FetchFailureNotFatal ==
    [][ (tf_pc = "fetch" /\ tf_queries # <<>>) =>
          /\ tf_pc' = "fetch"
          /\ tf_err' = "" ]_vars

-----------------------------------------------------------------------------
(* The blog files *)

\* C13: every run of BlogGenerator that returns adds one file to the blog
\* directory and leaves the files that were there as they were, whatever the
\* time that passed since the run before.
C13_BlogFilesAccumulate ==
    [][ (bg_pc = "blog" /\ bg_pc' = "done") =>
          /\ blogDir \subseteq blogDir'
          /\ Cardinality(blogDir') = Cardinality(blogDir) + 1 ]_vars

-----------------------------------------------------------------------------
(* The queries of TrendFetcher *)

\* C19: whatever the reply, the list build_queries returns has exactly one
\* element, which is the fallback "<industry> trends" or a cleaned query of two
\* to four words.
C19_ExactlyOneQuery ==
    [][ (tf_pc = "queries" /\ tf_pc' = "fetch") =>
          /\ Len(tf_queries') = 1
          /\ \/ tf_queries'[1] = TrendsQuery(tf_icp.industry)
             \/ Len(Split(tf_queries'[1])) \in MinWords..MaxWords ]_vars

-----------------------------------------------------------------------------
(* The platform files *)

\* the keys of a platform's file
DataKeys(platform) ==
    IF platform = "youtube" THEN {"id", "title", "script_intro", "caption", "hashtags"}
    ELSE {"id", "title", "caption", "hashtags"}

\* the title the topics file gives for an id: that of the first topic having it
TitleOf(topic_id) ==
    LET M == {j \in 1..Len(topicsFile.val) : topicsFile.val[j].id = topic_id}
    IN  topicsFile.val[SetMin(M)].title

\* the value a post gives for a key, or the filler when the post has not the key
ValueOrFiller(post, key, filler) ==
    IF \E i \in 1..Len(post.m) : post.m[i].key = key
    THEN Get(Members(post), key)
    ELSE filler

\* C14: when ContentGenerator.run returns, each of the three platform files holds
\* one object with the fixed keys of its platform, the id run was called with and
\* the title the topics file gives for it; the text fields and the hashtags are the
\* post's, and "" or [] where the post has not the key.
C14_FilesHoldTopicAndDefaults ==
    [][ (cg_pc = "write" /\ cg_pc' = "done") =>
          \A i \in 1..Len(Platforms) :
             LET p == Platforms[i]
                 f == contentFiles'[p]
                 post == cg_posts[p]
             IN  /\ f.st = "ok"
                 /\ DOMAIN f.val = DataKeys(p)
                 /\ f.val.id = cg_id
                 /\ f.val.title = StrVal(TitleOf(cg_id))
                 /\ f.val.caption = ValueOrFiller(post, CaptionKey(p), StrVal(<<>>))
                 /\ f.val.hashtags = ValueOrFiller(post, TagsKey(p), ListVal(<<>>))
                 /\ p = "youtube" =>
                       f.val.script_intro = ValueOrFiller(post, "script_intro", StrVal(<<>>)) ]_vars

\* a second run returned: topic 2 replaced what the files held, LinkedIn with the
\* post's caption and Twitter with the fillers
C14_Witness ==
    /\ cg_pc = "done"
    /\ cg_runs = 2
    /\ \A i \in 1..Len(Platforms) : contentFiles[Platforms[i]].val.id = 2
    /\ contentFiles["linkedin"].val.caption = StrVal(<<"a">>)
    /\ contentFiles["twitter"].val.caption = StrVal(<<>>)
    /\ contentFiles["twitter"].val.hashtags = ListVal(<<>>)

\* the three files are all missing, or all carry the same id and title
SameTopic(files) ==
    \/ \A i \in 1..Len(Platforms) : files[Platforms[i]].st = "absent"
    \/ /\ \A i \in 1..Len(Platforms) : files[Platforms[i]].st = "ok"
       /\ \A i, j \in 1..Len(Platforms) :
             /\ files[Platforms[i]].val.id = files[Platforms[j]].val.id
             /\ files[Platforms[i]].val.title = files[Platforms[j]].val.title

\* how a run ends in the cases the statement names: its return, the unknown id,
\* the failed LLM call, the reply clean_response cannot parse
NamedEndings == {"", "ValueError", "LLMError", "JSONDecodeError"}

\* C20: a run of ContentGenerator that returns, or that aborts on an unknown id, a
\* failed LLM call or an unparseable reply, keeps the three platform files on one
\* topic: from files all missing or all of one id and title it leaves them so, and
\* the aborted run leaves each file as it was.
C20_FilesOnOneTopic ==
    [][ (cg_pc' \in {"done", "raised"} /\ cg_err'.type \in NamedEndings
         /\ SameTopic(contentFiles)) =>
          /\ SameTopic(contentFiles')
          /\ cg_pc' = "raised" => contentFiles' = contentFiles ]_vars

\* a run wrote topic 1 to the three files and the run after it aborted on its reply
C20_Witness ==
    /\ cg_runs = 2
    /\ cg_pc = "raised"
    /\ cg_err.type = "JSONDecodeError"
    /\ \A i \in 1..Len(Platforms) :
          /\ contentFiles[Platforms[i]].st = "ok"
          /\ contentFiles[Platforms[i]].val.id = 1

-----------------------------------------------------------------------------
(* The history of used topics *)

-----------------------------------------------------------------------------
(* is_similar called on its own *)

\* titles of at most MaxTitleLen characters, in both cases
Titles == SeqsUpTo({"a", "A", "b"}, MaxTitleLen)

InitSimilar ==
    /\ now = 0
    /\ nicheFile = Absent
    /\ usedFile = Absent
    /\ blogDir = {}
    /\ blogDirExists = FALSE
    /\ BgOff
    /\ TfOff
    /\ OthersOff
    /\ Cm2Off
    /\ call_in \in [done : {FALSE}, a : Titles, b : Titles]
    /\ call_out = NotCalled

\* self.is_similar(a, b), with the ratio it computes on the way
IsSimilar_Call ==
    /\ ~call_out.done
    /\ call_out' = [done |-> TRUE,
                    ratio |-> Ratio(Lower(call_in.a), Lower(call_in.b)),
                    similar |-> is_similar(call_in.a, call_in.b)]
    /\ UNCHANGED <<now, nicheFile, usedFile, blogDir, blogDirExists, bgVars, tfVars,
                   topicsFile, contentFiles, perfFile, insightsFile, cgVars, cmVars, anVars,
                   cm2Vars, call_in>>

NextSimilar == IsSimilar_Call

SpecSimilar == InitSimilar /\ [][NextSimilar]_vars

\* C16: for two titles that are equal when their case is ignored, the ratio
\* is_similar computes is 1.0 and is_similar returns true.
C16_SameButForCaseIsSimilar ==
    (call_out.done /\ Lower(call_in.a) = Lower(call_in.b)) =>
        /\ call_out.ratio[1] = call_out.ratio[2]
        /\ call_out.similar

\* "abA" against "Aba": equal but for the case of two characters, found similar
C16_Witness ==
    /\ call_out.done
    /\ call_in.a = <<"a", "b", "A">>
    /\ call_in.b = <<"A", "b", "a">>
    /\ call_out.similar

-----------------------------------------------------------------------------
(* generate_fake_metrics called on its own *)

\* what the four random.randint calls can draw: the ends of each range and values
\* between them, with sums that fall halfway between two thousandths
MetricDraws ==
    [impressions : {2000, 2001, 4000, 19999, 20000},
     likes : {40, 41, 300},
     comments : {5, 6, 60},
     shares : {5, 50},
     up : BOOLEAN]

InitMetrics ==
    /\ now = 0
    /\ nicheFile = Absent
    /\ usedFile = Absent
    /\ blogDir = {}
    /\ blogDirExists = FALSE
    /\ BgOff
    /\ TfOff
    /\ OthersOff
    /\ Cm2Off
    /\ call_in \in [done : {FALSE}, draw : MetricDraws]
    /\ call_out = NotCalled

\* "metrics": generate_fake_metrics(), of the record collect_metrics appends
GenerateFakeMetrics_Call ==
    /\ ~call_out.done
    /\ call_out' = [done |-> TRUE, metrics |-> generate_fake_metrics(call_in.draw)]
    /\ UNCHANGED <<now, nicheFile, usedFile, blogDir, blogDirExists, bgVars, tfVars,
                   topicsFile, contentFiles, perfFile, insightsFile, cgVars, cmVars, anVars,
                   cm2Vars, call_in>>

NextMetrics == GenerateFakeMetrics_Call

SpecMetrics == InitMetrics /\ [][NextMetrics]_vars

Abs(x) == IF x < 0 THEN -x ELSE x

\* C17: the metrics of a record have impressions in 2000..20000, likes in 40..300,
\* comments in 5..60 and shares in 5..50, and an engagement rate that is, in
\* thousandths, an integer nearest to 1000 * (likes + comments + shares) /
\* impressions, and lies between 0.002 and 0.205.
C17_MetricsInRange ==
    call_out.done =>
        LET m == call_out.metrics
            sum == m.likes + m.comments + m.shares
        IN  /\ m.impressions \in 2000..20000
            /\ m.likes \in 40..300
            /\ m.comments \in 5..60
            /\ m.shares \in 5..50
            /\ 2 * Abs(1000 * sum - m.engagement_rate * m.impressions) <= m.impressions
            /\ m.engagement_rate \in 2..205

\* the least rate: 50 / 20000 lies halfway between 0.002 and 0.003
C17_Witness ==
    /\ call_out.done
    /\ call_out.metrics.impressions = 20000
    /\ call_out.metrics.likes + call_out.metrics.comments + call_out.metrics.shares = 50
    /\ call_out.metrics.engagement_rate = 3

-----------------------------------------------------------------------------
(* Two collect_metrics processes at once *)

\* the second process: the loop over platforms
Collect2_Platforms ==
    /\ cm2_pc = "idle"
    /\ IF ~blogDirExists
       THEN /\ cm2_pc' = "raised"
            /\ UNCHANGED <<cm2_all_data, cm2_existing>>
       ELSE \E m \in MetricSamples :
               LET draws == [i \in 1..Len(CollectPlatforms) |-> m]
                   all_data == CollectLoop(<<>>, contentFiles, blogDir, draws, now, 1)
               IN  /\ cm2_pc' = IF all_data = <<>> THEN "done" ELSE "read"
                   /\ cm2_all_data' = all_data
                   /\ UNCHANGED cm2_existing
    /\ UNCHANGED <<now, nicheFile, usedFile, blogDir, blogDirExists, bgVars, tfVars,
                   topicsFile, contentFiles, perfFile, insightsFile, cgVars, cmVars, anVars,
                   callVars>>

\* the second process: existing = load_json_safe(OUTPUT_FILE) or []; existing.extend(all_data)
Collect2_ReadExisting ==
    /\ cm2_pc = "read"
    /\ LET loaded == load_json_safe(perfFile)
       IN  cm2_existing' = (IF loaded.none THEN <<>> ELSE loaded.val) \o cm2_all_data
    /\ cm2_pc' = "write"
    /\ UNCHANGED <<now, nicheFile, usedFile, blogDir, blogDirExists, bgVars, tfVars,
                   topicsFile, contentFiles, perfFile, insightsFile, cgVars, cmVars, anVars,
                   callVars, cm2_all_data>>

\* the second process: open(OUTPUT_FILE, "w") and json.dump(existing, ...)
Collect2_WriteBack ==
    /\ cm2_pc = "write"
    /\ LET encodable == \A i \in 1..Len(cm2_existing) : Encodable(cm2_existing[i].title)
       IN  /\ perfFile' = json_dump(cm2_existing, encodable)
           /\ cm2_pc' = IF encodable THEN "done" ELSE "raised"
    /\ UNCHANGED <<now, nicheFile, usedFile, blogDir, blogDirExists, bgVars, tfVars,
                   topicsFile, contentFiles, insightsFile, cgVars, cmVars, anVars,
                   callVars, cm2_all_data, cm2_existing>>

\* two processes started on the same files
InitPerf2 ==
    /\ now = 0
    /\ CallOff
    /\ nicheFile = Absent
    /\ usedFile = Absent
    /\ \/ blogDirExists = FALSE /\ blogDir = {}
       \/ blogDirExists = TRUE /\ blogDir \in BlogDirSamples
    /\ BgOff
    /\ TfOff
    /\ topicsFile = Absent
    /\ contentFiles \in ContentSamples
    /\ perfFile \in PerfSamples
    /\ insightsFile = Absent
    /\ CgOff
    /\ cm_pc = "idle"
    /\ cm_all_data = <<>>
    /\ cm_existing = <<>>
    /\ cm_err = ""
    /\ cm_runs = 0
    /\ AnOff
    /\ cm2_pc = "idle"
    /\ cm2_all_data = <<>>
    /\ cm2_existing = <<>>

NextPerf2 ==
    \/ Collect_Platforms
    \/ Collect_ReadExisting
    \/ Collect_WriteBack
    \/ Collect2_Platforms
    \/ Collect2_ReadExisting
    \/ Collect2_WriteBack

SpecPerf2 == InitPerf2 /\ [][NextPerf2]_vars

\* the records of a list that a file holds
Kept(list, file) ==
    {i \in 1..Len(list) : \E j \in 1..Len(file.val) : file.val[j] = list[i]}

\* C18: nothing keeps two collect_metrics processes apart: the write-back of each
\* leaves the file holding the list that process built when it read the file, and
\* not what the other process wrote since, so that the records of one run can be
\* missing when both have returned.
C18_WriteBackOfWhatWasRead ==
    [][ /\ (cm_pc = "write" /\ cm_pc' = "done") => perfFile' = Holding(cm_existing)
        /\ (cm2_pc = "write" /\ cm2_pc' = "done") => perfFile' = Holding(cm2_existing)
      ]_vars

\* both processes have returned and the file holds no record of the second one,
\* which wrote its records before the first one wrote back
C18_Witness ==
    /\ cm_pc = "done"
    /\ cm_runs = 1
    /\ cm2_pc = "done"
    /\ cm2_all_data # <<>>
    /\ perfFile.st = "ok"
    /\ Kept(cm2_all_data, perfFile) = {}

-----------------------------------------------------------------------------
(* collect_metrics: the records of one run *)

\* the place of a platform in the order of the loop
PlatformIndex(platform) ==
    CHOOSE i \in 1..Len(CollectPlatforms) : CollectPlatforms[i] = platform

\* whether a record is one a platform can give: for the three content platforms the
\* file is there, parses and is not empty, and the record carries its id and title;
\* for the blog the record carries the title of the file modified last, which is
\* not empty
Contributed(record) ==
    IF record.platform = "blog"
    THEN \E f \in blogDir :
            /\ \A g \in blogDir : g[1] <= f[1]
            /\ f[2] # {}
            /\ record.title = GetOr(f[2], "title", Untitled)
    ELSE LET file == contentFiles[record.platform]
         IN  /\ file.st = "ok"
             /\ file.val # EmptyObject
             /\ record.topic_id = file.val.id
             /\ record.title = file.val.title

\* no platform has content to give
NothingToCollect ==
    /\ \A p \in {"linkedin", "twitter", "youtube"} :
          contentFiles[p].st # "ok" \/ contentFiles[p].val = EmptyObject
    /\ \A f \in blogDir : f[2] = {} \/ \E g \in blogDir : g[1] > f[1]

\* C21: a run of collect_metrics gathers at most one record per platform, in the
\* order linkedin, twitter, youtube, blog, each from a content file that is there,
\* parses and is not empty, the blog one from the blog file modified last; what it
\* writes after the records it keeps is these records, and a run with nothing to
\* collect ends without a write, the performance-data file left as it was.
C21_OneRecordPerPlatform ==
    [][ /\ cm_pc' = "read" =>
              /\ cm_all_data' # <<>>
              /\ \A i, j \in 1..Len(cm_all_data') :
                    i < j => PlatformIndex(cm_all_data'[i].platform)
                               < PlatformIndex(cm_all_data'[j].platform)
              /\ \A i \in 1..Len(cm_all_data') : Contributed(cm_all_data'[i])
        /\ perfFile' # perfFile =>
              /\ cm_pc = "write"
              /\ cm_all_data # <<>>
              /\ \E k \in 0..Len(perfFile.val) :
                    perfFile'.val = SubSeq(perfFile.val, 1, k) \o cm_all_data
        /\ (cm_runs' = cm_runs + 1 /\ NothingToCollect) =>
              /\ cm_pc' \in {"done", "raised"}
              /\ perfFile' = perfFile
      ]_vars

\* a run has added four records to the one the file held, the last of them for the
\* newer of two blog files
C21_Witness ==
    /\ cm_pc = "done"
    /\ cm_runs = 1
    /\ Cardinality(blogDir) = 2
    /\ perfFile.st = "ok"
    /\ Len(perfFile.val) = 5
    /\ [i \in 1..4 |-> perfFile.val[i + 1].platform] = CollectPlatforms
    /\ perfFile.val[5].title = StrVal(<<"c">>)

====
